---- MODULE Spec2Model ----
(***************************************************************************)
(* Snake Drill Trainer: the drill generator (services/drillGenerator.ts),  *)
(* the playback scheduler (components/DrillRunner.tsx), the App handlers   *)
(* that own the run state (App.tsx) and the speech cue player              *)
(* (services/speech.ts).                                                   *)
(*                                                                         *)
(* Units: click values and positions are integers (clicks); intervals are  *)
(* hundredths of a second; timer delays are milliseconds; speech rates are *)
(* hundredths.                                                             *)
(***************************************************************************)
EXTENDS Integers, Sequences, FiniteSets, TLC

VARIABLES
  \* generateDrill: arguments, locals and return value
  numCommands, clickValues, maxTAndE,
  gpc, attempt, positiveCommands, availableCommands, finalDrill,
  simTraverse, simElevation, result,
  \* observers of generateDrill: Math.random calls made, loop bodies entered
  draws, attemptsStarted,
  \* isMoveValid called on its own: arguments and returned value
  validArgs, validResult,
  \* App.tsx: the state of App
  drillState, commands, finalTAndE, drillConfig,
  \* DrillRunner.tsx: the state of the mounted DrillRunner, its pending timers and
  \* whether its progression effect has yet to run for the current dependencies
  currentCommandIndex, tAndERef, displayTAndE, timers, effectPending,
  \* speech.ts: the commandPlayer singleton and the cue the engine is speaking
  isSupported, utteranceCache, speaking,
  \* observers of a run: timer callbacks in the order they ran, the onFinish calls,
  \* and whether the run was stopped
  log, finishCalls, cancelled,
  \* observers of the speech calls: the call the effect made on entering each command,
  \* and the preload calls of handleStartDrill for the run
  cueCalls, preloadCalls,
  \* DrillRunner.tsx: re-renders of the mounted DrillRunner with changed props
  propChanges,
  \* observer of a mount: the index and position left behind by the run before it
  staleRun,
  \* calculateAutoSpeed called on its own: argument and returned value
  speedArgs, speedResult

genVars == <<numCommands, clickValues, maxTAndE, gpc, attempt, positiveCommands,
             availableCommands, finalDrill, simTraverse, simElevation, result,
             draws, attemptsStarted>>
pureVars == <<validArgs, validResult>>
speedVars == <<speedArgs, speedResult>>
valVars == <<pureVars, speedVars>>
appVars == <<drillState, commands, finalTAndE, drillConfig>>
runVars == <<currentCommandIndex, tAndERef, displayTAndE, timers, effectPending>>
speechVars == <<isSupported, utteranceCache, speaking>>
obsVars == <<log, finishCalls, cancelled>>
callVars == <<cueCalls, preloadCalls, propChanges, staleRun>>
uiVars == <<appVars, runVars, speechVars, obsVars, callVars>>
vars == <<genVars, valVars, uiVars>>

----------------------------------------------------------------------------
(* Bounds of the model *)

\* largest numCommands handed to generateDrill
MaxNumCommands == 4
\* positions handed to isMoveValid range over -PosSteps*5 .. PosSteps*5
PosSteps == 5

\* clickValues arrays handed to generateDrill (positive integers, as the only
\* caller filters them: App.tsx handleStartDrill, v > 0)
ClickValueLists == { <<>>, <<5>>, <<10>>, <<5, 10>>, <<30>>, <<5, 30>> }
MaxTAndEs == {5, 10, 25}
\* click values of the commands handed to isMoveValid
ValidValues == {5, 10}

\* intervals handed to calculateAutoSpeed range over 0 .. MaxIntervalCs hundredths
MaxIntervalCs == 150

\* longest command list handed to DrillRunner
MaxRunLen == 3
\* the command lists handed to DrillRunner: every list up to MaxRunLen
RunnerCommands == { [direction |-> d, value |-> v] : d \in {"UP", "DOWN", "LEFT", "RIGHT"},
                                                     v \in {5, 10} }
RunnerCommandLists == UNION { [1..n -> RunnerCommands] : n \in 0..MaxRunLen }
RunnerMaxTAndEs == {10}
\* commandInterval, hundredths of a second
Intervals == {5, 100}
\* the arguments of the calls made to commandPlayer on its own
PreloadLists == { <<5>>, <<10>>, <<5, 10>> }
SpeedMultipliers == {30, 1500}
\* the values the fields of the configuration form are changed to
AppConfigValues(field) ==
  CASE field = "numCommands" -> {0, 2}
    [] field = "clickValues" -> { <<"5", " 10">>, <<"x", "-5", "0">> }
    [] field = "commandInterval" -> {0, 100}
    [] field = "maxTAndE" -> {5, 25}
    [] field = "voiceEnabled" -> BOOLEAN
    [] field = "ttsSpeedMultiplier" -> {200}
    [] OTHER -> {FALSE}
\* most changes of DrillRunner's props in one run
MaxPropChanges == 1
\* the command lists of the runs whose props change
PropsCommandLists ==
  { << [direction |-> "RIGHT", value |-> 5] >>,
    << [direction |-> "RIGHT", value |-> 5], [direction |-> "UP", value |-> 5] >>,
    << [direction |-> "UP", value |-> 10], [direction |-> "DOWN", value |-> 10] >> }
\* the click-values texts of the drills played to their end
ReplayTexts == { <<"5">>, <<" 10">>, <<"5", " 10">> }
\* the command lists of the runs followed to their end under fairness
ProgressCommandLists ==
  PropsCommandLists \cup
    { << [direction |-> "RIGHT", value |-> 10], [direction |-> "RIGHT", value |-> 5],
         [direction |-> "LEFT", value |-> 5] >>,
      << [direction |-> "UP", value |-> 5], [direction |-> "LEFT", value |-> 10],
         [direction |-> "DOWN", value |-> 5] >> }
\* the values a changed prop takes
PropValues(field) ==
  CASE field = "commandInterval" -> Intervals
    [] field = "ttsSpeedMultiplier" -> {200, 300}
    [] OTHER -> BOOLEAN

----------------------------------------------------------------------------
(* types.ts *)

Direction == {"UP", "DOWN", "LEFT", "RIGHT"}

DrillCommand(d, v) == [direction |-> d, value |-> v]

----------------------------------------------------------------------------
(* services/drillGenerator.ts *)

\* isMoveValid with no bound tested
isMoveValidAlways(command, currentTraverse, currentElevation, max) ==
  command.direction \in {"UP", "DOWN", "LEFT", "RIGHT"}

\* isMoveValid with the Right bound made strict
isMoveValidStrictRight(command, currentTraverse, currentElevation, max) ==
  CASE command.direction = "UP"    -> currentElevation + command.value <= max
    [] command.direction = "DOWN"  -> currentElevation - command.value >= -max
    [] command.direction = "LEFT"  -> currentTraverse - command.value >= -max
    [] command.direction = "RIGHT" -> currentTraverse + command.value < max
    [] OTHER -> FALSE

\* line 11-30
isMoveValid(command, currentTraverse, currentElevation, max) ==
  CASE command.direction = "UP"    -> currentElevation + command.value <= max
    [] command.direction = "DOWN"  -> currentElevation - command.value >= -max
    [] command.direction = "LEFT"  -> currentTraverse - command.value >= -max
    [] command.direction = "RIGHT" -> currentTraverse + command.value <= max
    [] OTHER -> FALSE

MAX_GENERATION_ATTEMPTS == 10

\* line 33 without the test of the values against maxTAndE
infeasibleOnlyEmpty == Len(clickValues) = 0

\* line 33: clickValues.length === 0 || clickValues.some(v => v > maxTAndE)
infeasible ==
  Len(clickValues) = 0 \/ \E k \in 1..Len(clickValues) : clickValues[k] > maxTAndE

\* line 41 without the rounding
totalCommandsNoRound == numCommands

\* line 41: numCommands % 2 === 0 ? numCommands : numCommands + 1
totalCommands == IF numCommands % 2 = 0 THEN numCommands ELSE numCommands + 1
\* line 42
halfCommands == totalCommands \div 2

\* line 53-56 with every positive command mirrored to Down
negativeCommandDown(command) == DrillCommand("DOWN", command.value)

\* line 53-56: the exact opposite of a positive command
negativeCommand(command) ==
  DrillCommand(IF command.direction = "RIGHT" THEN "LEFT" ELSE "DOWN", command.value)

\* line 65-67 with the first pool entry tested alone
validMoveIndicesFirst ==
  { index \in 1..Len(availableCommands) :
      /\ index = 1
      /\ isMoveValid(availableCommands[index], simTraverse, simElevation, maxTAndE) }

\* line 65-67 with the filter testing the position alone
validMoveIndicesNoValue ==
  { index \in 1..Len(availableCommands) :
      isMoveValid([availableCommands[index] EXCEPT !.value = 0],
                  simTraverse, simElevation, maxTAndE) }

\* line 65-67: indices of the pool entries that are valid moves
validMoveIndices ==
  { index \in 1..Len(availableCommands) :
      isMoveValid(availableCommands[index], simTraverse, simElevation, maxTAndE) }

\* line 78 with pop(): the pool loses its last entry, whichever was chosen
splicePop(arr, index) == SubSeq(arr, 1, Len(arr) - 1)

\* line 78 with slice for splice: the pool keeps the chosen entry
spliceNone(arr, index) == arr

\* line 78 with splice(index, 2)
spliceTwo(arr, index) ==
  [ k \in 1..(IF index < Len(arr) THEN Len(arr) - 2 ELSE Len(arr) - 1) |->
      IF k < index THEN arr[k] ELSE arr[k + 2] ]

\* line 78, Array.prototype.splice(index, 1): the array without the entry at index
splice(arr, index) ==
  [ k \in 1..(Len(arr) - 1) |-> IF k < index THEN arr[k] ELSE arr[k + 1] ]

\* line 82-87: the simulated state after a command
simTraverseAfter(command, t) ==
  CASE command.direction = "LEFT"  -> t - command.value
    [] command.direction = "RIGHT" -> t + command.value
    [] OTHER -> t
simElevationAfter(command, e) ==
  CASE command.direction = "UP"   -> e + command.value
    [] command.direction = "DOWN" -> e - command.value
    [] OTHER -> e

\* line 32-36, and the first entry of the for loop (line 40, 43)
GenEntry ==
  /\ gpc = "entry"
  /\ IF infeasible
       THEN /\ result' = <<>>
            /\ gpc' = "returned"
            /\ UNCHANGED <<attempt, positiveCommands, attemptsStarted>>
       ELSE /\ attempt' = 0
            /\ positiveCommands' = <<>>
            /\ attemptsStarted' = attemptsStarted + 1
            /\ gpc' = "positive"
            /\ UNCHANGED result
  /\ UNCHANGED <<numCommands, clickValues, maxTAndE, availableCommands, finalDrill,
                 simTraverse, simElevation, draws>>
  /\ UNCHANGED <<valVars, uiVars>>

\* line 46-50: one iteration of the loop that draws the positive half
GenPositive ==
  /\ gpc = "positive"
  /\ Len(positiveCommands) < halfCommands
  /\ \E k \in 1..Len(clickValues), isHorizontal \in BOOLEAN :
       positiveCommands' = Append(positiveCommands,
           DrillCommand(IF isHorizontal THEN "RIGHT" ELSE "UP", clickValues[k]))
  /\ draws' = draws + 2
  /\ UNCHANGED <<numCommands, clickValues, maxTAndE, gpc, attempt, availableCommands,
                 finalDrill, simTraverse, simElevation, result, attemptsStarted>>
  /\ UNCHANGED <<valVars, uiVars>>

\* line 52-61: mirror the positive half and set up the pool
GenMirror ==
  /\ gpc = "positive"
  /\ ~(Len(positiveCommands) < halfCommands)
  /\ availableCommands' = positiveCommands \o
       [ k \in 1..Len(positiveCommands) |-> negativeCommand(positiveCommands[k]) ]
  /\ finalDrill' = <<>>
  /\ simTraverse' = 0
  /\ simElevation' = 0
  /\ gpc' = "drain"
  /\ UNCHANGED <<numCommands, clickValues, maxTAndE, attempt, positiveCommands, result,
                 draws, attemptsStarted>>
  /\ UNCHANGED <<valVars, uiVars>>

\* line 64-88: one iteration of the while loop (a stuck pool breaks out of it)
GenDrain ==
  /\ gpc = "drain"
  /\ Len(availableCommands) > 0
  /\ IF validMoveIndices = {}
       THEN /\ gpc' = "check"
            /\ UNCHANGED <<availableCommands, finalDrill, simTraverse, simElevation, draws>>
       ELSE \E randomValidIndex \in validMoveIndices :
              LET chosenCommand == availableCommands[randomValidIndex] IN
              /\ availableCommands' = splice(availableCommands, randomValidIndex)
              /\ finalDrill' = Append(finalDrill, chosenCommand)
              /\ simTraverse' = simTraverseAfter(chosenCommand, simTraverse)
              /\ simElevation' = simElevationAfter(chosenCommand, simElevation)
              /\ draws' = draws + 1
              /\ UNCHANGED gpc
  /\ UNCHANGED <<numCommands, clickValues, maxTAndE, attempt, positiveCommands, result,
                 attemptsStarted>>
  /\ UNCHANGED <<valVars, uiVars>>

\* line 90-97 and the loop header of line 40: return, retry or give up
GenAttemptEnd ==
  /\ IF gpc = "drain" THEN Len(availableCommands) = 0 ELSE gpc = "check"
  /\ IF Len(finalDrill) = totalCommands
       THEN /\ result' = finalDrill
            /\ gpc' = "returned"
            /\ UNCHANGED <<attempt, positiveCommands, attemptsStarted>>
       ELSE IF attempt + 1 < MAX_GENERATION_ATTEMPTS
         THEN /\ attempt' = attempt + 1
              /\ positiveCommands' = <<>>
              /\ attemptsStarted' = attemptsStarted + 1
              /\ gpc' = "positive"
              /\ UNCHANGED result
         ELSE /\ result' = <<>>
              /\ gpc' = "returned"
              /\ UNCHANGED <<attempt, positiveCommands, attemptsStarted>>
  /\ UNCHANGED <<numCommands, clickValues, maxTAndE, availableCommands, finalDrill,
                 simTraverse, simElevation, draws>>
  /\ UNCHANGED <<valVars, uiVars>>

\* the generator at rest
GenIdle ==
  /\ numCommands = 0 /\ clickValues = <<>> /\ maxTAndE = 0
  /\ gpc = "idle" /\ attempt = 0
  /\ positiveCommands = <<>> /\ availableCommands = <<>> /\ finalDrill = <<>>
  /\ simTraverse = 0 /\ simElevation = 0 /\ result = <<>>
  /\ draws = 0 /\ attemptsStarted = 0

\* a call generateDrill(numCommands, clickValues, maxTAndE)
GenCall ==
  /\ numCommands \in 0..MaxNumCommands
  /\ clickValues \in ClickValueLists
  /\ maxTAndE \in MaxTAndEs
  /\ gpc = "entry" /\ attempt = 0
  /\ positiveCommands = <<>> /\ availableCommands = <<>> /\ finalDrill = <<>>
  /\ simTraverse = 0 /\ simElevation = 0 /\ result = <<>>
  /\ draws = 0 /\ attemptsStarted = 0

\* isMoveValid at rest
ValidIdle ==
  /\ validArgs = [command |-> DrillCommand("UP", 0), traverse |-> 0, elevation |-> 0,
                  maxTAndE |-> 0, called |-> FALSE]
  /\ validResult = FALSE

\* a call isMoveValid(command, traverse, elevation, maxTAndE) about to be made
ValidCall ==
  /\ validArgs \in [command : {DrillCommand(d, v) : d \in Direction, v \in ValidValues},
                    traverse : {5 * k : k \in -PosSteps..PosSteps},
                    elevation : {5 * k : k \in -PosSteps..PosSteps},
                    maxTAndE : MaxTAndEs,
                    called : {FALSE}]
  /\ validResult = FALSE

\* the call returns
ValidReturn ==
  /\ ~validArgs.called
  /\ validResult' = isMoveValid(validArgs.command, validArgs.traverse,
                                validArgs.elevation, validArgs.maxTAndE)
  /\ validArgs' = [validArgs EXCEPT !.called = TRUE]
  /\ UNCHANGED <<genVars, speedVars, uiVars>>

----------------------------------------------------------------------------
(* services/speech.ts *)

\* no cue is being spoken
NoCue == [direction |-> "NONE", value |-> 0, rate |-> 0]

\* line 9: `${direction}_${value}`; the pair stands for the string
commandToKey(command) == <<command.direction, command.value>>

\* line 45-60 with the directions Up and Down only
preloadVertical(values, cache) ==
  IF ~isSupported THEN cache
  ELSE { commandToKey(DrillCommand(d, values[k])) : d \in {"UP", "DOWN"},
                                                     k \in 1..Len(values) }

\* line 45-60: the cache after preload(values)
preload(values, cache) ==
  IF ~isSupported THEN cache
  ELSE { commandToKey(DrillCommand(d, values[k])) : d \in Direction, k \in 1..Len(values) }

\* line 67-78 with Math.floor for Math.round
calculateAutoSpeedFloor(interval) ==
  IF interval >= 100 THEN 200
  ELSE LET steps == (100 - interval) \div 10
       IN  200 + steps * 30

\* line 67-78, interval in hundredths of a second, rate in hundredths;
\* Math.round(x) is floor(x + 0.5)
calculateAutoSpeed(interval) ==
  IF interval >= 100 THEN 200
  ELSE LET steps == ((100 - interval) + 5) \div 10
       IN  200 + steps * 30

\* calculateAutoSpeed at rest
SpeedIdle ==
  /\ speedArgs = [interval |-> 0, called |-> FALSE]
  /\ speedResult = 0

\* a call calculateAutoSpeed(interval) about to be made
SpeedCall ==
  /\ speedArgs \in [interval : 0..MaxIntervalCs, called : {FALSE}]
  /\ speedResult = 0

\* the call returns
SpeedReturn ==
  /\ ~speedArgs.called
  /\ speedResult' = calculateAutoSpeed(speedArgs.interval)
  /\ speedArgs' = [speedArgs EXCEPT !.called = TRUE]
  /\ UNCHANGED <<genVars, pureVars, uiVars>>

Min(a, b) == IF a < b THEN a ELSE b
Max(a, b) == IF a > b THEN a ELSE b

\* line 87-113: the cue being spoken after play(command, interval, manualSpeed, speedMultiplier)
play(command, interval, manualSpeed, speedMultiplier, current) ==
  IF ~isSupported THEN current
  ELSE IF commandToKey(command) \notin utteranceCache THEN current
  ELSE LET finalRate == IF manualSpeed THEN speedMultiplier
                        ELSE calculateAutoSpeed(interval)
       IN  [direction |-> command.direction, value |-> command.value,
            rate |-> Min(1000, Max(50, finalRate))]

\* line 118-122: the cue being spoken after stop()
stop(current) == IF isSupported THEN NoCue ELSE current

\* commandPlayer just constructed (line 19-27): nothing cached, nothing spoken
PlayerConstructed ==
  /\ isSupported \in BOOLEAN
  /\ utteranceCache = {}
  /\ speaking = NoCue

\* a call commandPlayer.preload(values)
SpeechPreload ==
  /\ \E values \in PreloadLists : utteranceCache' = preload(values, utteranceCache)
  /\ UNCHANGED <<isSupported, speaking, cueCalls>>
  /\ UNCHANGED <<genVars, valVars, appVars, runVars, obsVars, preloadCalls, propChanges, staleRun>>

\* a call commandPlayer.play(command, interval, manualSpeed, speedMultiplier); the
\* observer keeps this last call
SpeechPlay ==
  /\ \E command \in RunnerCommands, interval \in Intervals, manualSpeed \in BOOLEAN,
        speedMultiplier \in SpeedMultipliers :
       /\ speaking' = play(command, interval, manualSpeed, speedMultiplier, speaking)
       /\ cueCalls' = << [op |-> "play", index |-> 0, command |-> command,
                          cached |-> commandToKey(command) \in utteranceCache] >>
  /\ UNCHANGED <<isSupported, utteranceCache>>
  /\ UNCHANGED <<genVars, valVars, appVars, runVars, obsVars, preloadCalls, propChanges, staleRun>>

\* a call commandPlayer.stop()
SpeechStop ==
  /\ speaking' = stop(speaking)
  /\ cueCalls' = <<>>
  /\ UNCHANGED <<isSupported, utteranceCache>>
  /\ UNCHANGED <<genVars, valVars, appVars, runVars, obsVars, preloadCalls, propChanges, staleRun>>

\* the engine reaches the end of the utterance it is speaking
UtteranceEnd ==
  /\ speaking # NoCue
  /\ speaking' = NoCue
  /\ UNCHANGED <<isSupported, utteranceCache, cueCalls>>
  /\ UNCHANGED <<genVars, valVars, appVars, runVars, obsVars, preloadCalls, propChanges, staleRun>>

----------------------------------------------------------------------------
(* App.tsx and components/DrillRunner.tsx *)

\* App.tsx line 72-74: DrillRunner is rendered exactly in the running state
Mounted == drillState = "running"

Origin == [traverse |-> 0, elevation |-> 0]

\* no run came before
NoRun == [index |-> 0, traverse |-> 0, elevation |-> 0]

NaN == [nan |-> TRUE, n |-> 0]
Number(n) == [nan |-> FALSE, n |-> n]

\* App.tsx line 47: parseInt(v.trim(), 10) of a piece of the click-values text
parseInt(piece) ==
  CASE piece = "5" -> Number(5)
    [] piece = " 10" -> Number(10)
    [] piece = "0" -> Number(0)
    [] piece = "-5" -> Number(-5)
    [] OTHER -> NaN

\* App.tsx line 45-48 (DrillConfiguration.tsx line 18-21): the click-values text,
\* given as its pieces between commas, parsed and filtered
parsedValues(text) ==
  LET parsed == [ k \in 1..Len(text) |-> parseInt(text[k]) ]
      isPositive(x) == ~x.nan /\ x.n > 0
      numbers == SelectSeq(parsed, isPositive)
  IN  [ k \in 1..Len(numbers) |-> numbers[k].n ]

\* DrillRunner.tsx line 43: commands[currentCommandIndex] is defined
HasCurrentCommand == currentCommandIndex + 1 \in 1..Len(commands)
currentCommand == commands[currentCommandIndex + 1]

\* DrillRunner.tsx line 97-100 without clearTimeout(nextCommandTimer)
clearTimersMidpoint(ts) ==
  LET isEnd(t) == t.kind = "nextCommandTimer" IN SelectSeq(ts, isEnd)

\* DrillRunner.tsx line 97-100 without the clearTimeout calls
clearTimersNone(ts) == ts

\* DrillRunner.tsx line 97-100: the cleanup of the progression effect clears both timers
clearTimers(ts) == <<>>

\* DrillRunner.tsx line 105-107: the unmount cleanup stops the speech
unmountStop(current) == stop(current)

\* App.tsx line 60-63 with setDrillState('configuring')
handleFinishDrillToConfiguring(by, index, ts) ==
  /\ finalTAndE' = tAndERef
  /\ drillState' = "configuring"
  /\ finishCalls' = Append(finishCalls,
        [by |-> by, index |-> index, traverse |-> tAndERef.traverse,
         elevation |-> tAndERef.elevation,
         current |-> currentCommandIndex, length |-> Len(commands)])
  /\ IF Mounted
       THEN /\ timers' = clearTimers(ts)
            /\ speaking' = unmountStop(speaking)
       ELSE /\ timers' = ts
            /\ UNCHANGED speaking

\* App.tsx line 60-63 handleFinishDrill, called as onFinish by `by`; the render that
\* follows unmounts DrillRunner when it was mounted, running both effect cleanups
handleFinishDrill(by, index, ts) ==
  /\ finalTAndE' = tAndERef
  /\ drillState' = "finished"
  /\ finishCalls' = Append(finishCalls,
        [by |-> by, index |-> index, traverse |-> tAndERef.traverse,
         elevation |-> tAndERef.elevation,
         current |-> currentCommandIndex, length |-> Len(commands)])
  /\ IF Mounted
       THEN /\ timers' = clearTimers(ts)
            /\ speaking' = unmountStop(speaking)
       ELSE /\ timers' = ts
            /\ UNCHANGED speaking

\* DrillRunner.tsx line 66-95 made to wait for the cue: no timer is set when the
\* effect asked for a cue that commandPlayer cannot play
scheduledTimersWhenCued ==
  LET closure == [command |-> currentCommand, index |-> currentCommandIndex,
                  length |-> Len(commands), maxTAndE |-> drillConfig.maxTAndE]
  IN IF /\ drillConfig.voiceEnabled
        /\ (~isSupported \/ commandToKey(currentCommand) \notin utteranceCache)
       THEN <<>>
       ELSE << [kind |-> "gridUpdateTimer",
                delay |-> (drillConfig.commandInterval * 10) \div 2] @@ closure,
               [kind |-> "nextCommandTimer",
                delay |-> drillConfig.commandInterval * 10] @@ closure >>

\* DrillRunner.tsx line 66-95 with the two delays exchanged
scheduledTimersSwapped ==
  LET closure == [command |-> currentCommand, index |-> currentCommandIndex,
                  length |-> Len(commands), maxTAndE |-> drillConfig.maxTAndE]
  IN << [kind |-> "gridUpdateTimer", delay |-> drillConfig.commandInterval * 10]
          @@ closure,
        [kind |-> "nextCommandTimer", delay |-> (drillConfig.commandInterval * 10) \div 2]
          @@ closure >>

\* DrillRunner.tsx line 66-95: the two timers the effect schedules for a command;
\* each closure holds the command, its index, commands.length and maxTAndE
scheduledTimers ==
  LET closure == [command |-> currentCommand, index |-> currentCommandIndex,
                  length |-> Len(commands), maxTAndE |-> drillConfig.maxTAndE]
  IN << [kind |-> "gridUpdateTimer", delay |-> (drillConfig.commandInterval * 10) \div 2]
          @@ closure,
        [kind |-> "nextCommandTimer", delay |-> drillConfig.commandInterval * 10]
          @@ closure >>

\* DrillRunner.tsx line 57: 0.1 s
MIN_SPEECH_INTERVAL == 10

\* DrillRunner.tsx line 56-63 with the interval threshold left out
effectCueNoThreshold == IF drillConfig.voiceEnabled THEN "play" ELSE "none"

\* DrillRunner.tsx line 56-63: the commandPlayer call the effect makes on entering
\* a command
effectCue ==
  IF drillConfig.voiceEnabled
    THEN IF drillConfig.commandInterval >= MIN_SPEECH_INTERVAL THEN "play" ELSE "stop"
    ELSE "none"

\* DrillRunner.tsx line 56-63: the speech on entering a command
effectSpeech(current) ==
  CASE effectCue = "play" ->
         play(currentCommand, drillConfig.commandInterval,
              drillConfig.ttsManualSpeed, drillConfig.ttsSpeedMultiplier, current)
    [] effectCue = "stop" -> stop(current)
    [] OTHER -> current

\* DrillRunner.tsx line 47-102: the progression effect runs for the current
\* dependencies, after the cleanup of its previous run
RunEffect ==
  /\ Mounted
  /\ effectPending
  /\ effectPending' = FALSE
  /\ IF ~HasCurrentCommand
       THEN IF Len(commands) > 0
              THEN /\ handleFinishDrill("effect", currentCommandIndex, clearTimers(timers))
                   /\ UNCHANGED <<commands, drillConfig, currentCommandIndex, tAndERef,
                                  displayTAndE, isSupported, utteranceCache, log, cancelled,
                                  callVars>>
              ELSE /\ timers' = clearTimers(timers)
                   /\ UNCHANGED <<appVars, currentCommandIndex, tAndERef, displayTAndE,
                                  speechVars, obsVars, callVars>>
       ELSE /\ speaking' = effectSpeech(speaking)
            /\ cueCalls' = Append(cueCalls, [op |-> effectCue, index |-> currentCommandIndex,
                                            command |-> currentCommand,
                                            cached |-> commandToKey(currentCommand)
                                                          \in utteranceCache])
            /\ timers' = scheduledTimers
            /\ UNCHANGED <<appVars, currentCommandIndex, tAndERef, displayTAndE,
                           isSupported, utteranceCache, obsVars, preloadCalls, propChanges, staleRun>>
  /\ UNCHANGED <<genVars, valVars>>

\* setTimeout: a pending timer runs when no other pending timer is due before it;
\* all pending timers were set by the same effect run, so of two the one with the
\* smaller delay is due first, and of two equal delays the one set first
Due(k) ==
  \A j \in 1..Len(timers) :
     j = k \/ timers[j].delay > timers[k].delay
           \/ (timers[j].delay = timers[k].delay /\ j > k)

\* DrillRunner.tsx line 77-78 left out
clampNone(x, max) == x

\* DrillRunner.tsx line 77-78: Math.max(-maxTAndE, Math.min(maxTAndE, x))
clamp(x, max) == Max(-max, Min(max, x))

\* a timer that ran is no longer pending
removeTimer(ts, k) == [ j \in 1..(Len(ts) - 1) |-> IF j < k THEN ts[j] ELSE ts[j + 1] ]

\* DrillRunner.tsx line 89 never true: every end-of-interval callback advances
isLastCommandNever(index, length) == FALSE

\* DrillRunner.tsx line 89 testing against commands.length - 2
isLastCommandEarly(index, length) == index >= length - 2

\* DrillRunner.tsx line 89: currentCommandIndex >= commands.length - 1
isLastCommand(index, length) == index >= length - 1

\* DrillRunner.tsx line 66-85: the midpoint callback
gridUpdateTimer ==
  \E k \in 1..Len(timers) :
    /\ timers[k].kind = "gridUpdateTimer"
    /\ Due(k)
    /\ LET t == timers[k]
           traverse == simTraverseAfter(t.command, tAndERef.traverse)
           elevation == simElevationAfter(t.command, tAndERef.elevation)
       IN  /\ tAndERef' = [traverse |-> clamp(traverse, t.maxTAndE),
                           elevation |-> clamp(elevation, t.maxTAndE)]
           /\ displayTAndE' = IF Mounted THEN tAndERef' ELSE displayTAndE
           /\ log' = Append(log, <<"midpoint", t.index>>)
    /\ timers' = removeTimer(timers, k)
    /\ UNCHANGED <<appVars, currentCommandIndex, effectPending, speechVars,
                   finishCalls, cancelled, callVars>>
    /\ UNCHANGED <<genVars, valVars>>

\* DrillRunner.tsx line 88-95: the end-of-interval callback
nextCommandTimer ==
  \E k \in 1..Len(timers) :
    /\ timers[k].kind = "nextCommandTimer"
    /\ Due(k)
    /\ LET t == timers[k] IN
       IF isLastCommand(t.index, t.length)
         THEN /\ log' = Append(log, <<"end", t.index>>)
              /\ UNCHANGED tAndERef
              /\ handleFinishDrill("nextCommandTimer", t.index, removeTimer(timers, k))
              /\ UNCHANGED <<commands, drillConfig, currentCommandIndex, displayTAndE,
                             effectPending, isSupported, utteranceCache, cancelled,
                             callVars>>
         ELSE /\ log' = Append(log, <<"advance", t.index>>)
              /\ timers' = removeTimer(timers, k)
              /\ IF Mounted
                   THEN /\ currentCommandIndex' = currentCommandIndex + 1
                        /\ effectPending' = TRUE
                   ELSE UNCHANGED <<currentCommandIndex, effectPending>>
              /\ UNCHANGED <<appVars, tAndERef, displayTAndE, speechVars,
                             finishCalls, cancelled, callVars>>
    /\ UNCHANGED <<genVars, valVars>>

\* DrillRunner.tsx line 102: the dependencies of the progression effect that are
\* configuration props
effectConfigDeps == {"commandInterval", "voiceEnabled", "ttsManualSpeed",
                     "ttsSpeedMultiplier"}

\* DrillRunner.tsx line 47-102: the parent renders DrillRunner with a changed value of
\* one configuration prop. The prop is a dependency of the progression effect, so the
\* commit runs the effect's cleanup (line 97-100) and leaves the effect to run again
\* for the same currentCommandIndex.
PropsChange ==
  /\ Mounted
  /\ HasCurrentCommand
  /\ propChanges < MaxPropChanges
  /\ \E field \in effectConfigDeps : \E v \in PropValues(field) :
        /\ v # drillConfig[field]
        /\ drillConfig' = [drillConfig EXCEPT ![field] = v]
  /\ propChanges' = propChanges + 1
  /\ timers' = clearTimers(timers)
  /\ effectPending' = TRUE
  /\ UNCHANGED <<drillState, commands, finalTAndE, currentCommandIndex, tAndERef,
                 displayTAndE, speechVars, obsVars, cueCalls, preloadCalls, staleRun>>
  /\ UNCHANGED <<genVars, valVars>>

\* App.tsx line 65-69 without setCommands([])
handleResetKeepCommands(current) ==
  /\ commands' = commands
  /\ drillState' = "configuring"
  /\ IF Mounted
       THEN /\ timers' = clearTimers(timers)
            /\ speaking' = unmountStop(stop(current))
       ELSE /\ speaking' = stop(current)
            /\ UNCHANGED timers

\* App.tsx line 65-69 handleReset; the render that follows unmounts DrillRunner
\* when it was mounted, running both effect cleanups. The state updates of a click
\* are committed, and the cleanups of the unmounted component run, before the event
\* loop takes its next task (React's synchronous flush of a discrete event), so no
\* timer callback runs between the click and the cleanups.
handleReset(current) ==
  /\ commands' = <<>>
  /\ drillState' = "configuring"
  /\ IF Mounted
       THEN /\ timers' = clearTimers(timers)
            /\ speaking' = unmountStop(stop(current))
       ELSE /\ speaking' = stop(current)
            /\ UNCHANGED timers

\* DrillRunner.tsx line 109-112: the Stop Drill button, rendered when the current
\* command is defined (line 116-122)
handleStopClick ==
  /\ Mounted
  /\ HasCurrentCommand
  /\ handleReset(stop(speaking))
  /\ cancelled' = TRUE
  /\ UNCHANGED <<finalTAndE, drillConfig, currentCommandIndex, tAndERef, displayTAndE,
                 effectPending, isSupported, utteranceCache, log, finishCalls, callVars>>
  /\ UNCHANGED <<genVars, valVars>>

\* DrillResult.tsx: the Run New Drill button of the result screen calls onReset
ResultReset ==
  /\ drillState = "finished"
  /\ handleReset(speaking)
  /\ UNCHANGED <<finalTAndE, drillConfig, currentCommandIndex, tAndERef, displayTAndE,
                 effectPending, isSupported, utteranceCache, obsVars, callVars>>
  /\ UNCHANGED <<genVars, valVars>>

\* DrillConfiguration.tsx: an input of the form changes one field of the
\* configuration through onConfigChange (App.tsx line 40-42); the form is rendered in
\* the configuring state
handleConfigChange ==
  /\ drillState = "configuring"
  /\ gpc = "idle"
  /\ \E field \in DOMAIN drillConfig : \E v \in AppConfigValues(field) :
        /\ v # drillConfig[field]
        /\ drillConfig' = [drillConfig EXCEPT ![field] = v]
  /\ UNCHANGED <<drillState, commands, finalTAndE, runVars, speechVars, obsVars, callVars>>
  /\ UNCHANGED <<genVars, valVars>>

\* App.tsx line 44-58 handleStartDrill up to the call of generateDrill, whose steps
\* follow; no other handler runs until StartDrillReturn
handleStartDrill ==
  LET parsed == parsedValues(drillConfig.clickValues) IN
  IF Len(parsed) > 0
    THEN /\ IF drillConfig.voiceEnabled
              THEN /\ utteranceCache' = preload(parsed, utteranceCache)
                   /\ preloadCalls' = <<parsed>>
              ELSE /\ preloadCalls' = <<>>
                   /\ UNCHANGED utteranceCache
         /\ numCommands' = drillConfig.numCommands
         /\ clickValues' = parsed
         /\ maxTAndE' = drillConfig.maxTAndE
         /\ gpc' = "entry" /\ attempt' = 0
         /\ positiveCommands' = <<>> /\ availableCommands' = <<>> /\ finalDrill' = <<>>
         /\ simTraverse' = 0 /\ simElevation' = 0 /\ result' = <<>>
         /\ draws' = 0 /\ attemptsStarted' = 0
         /\ UNCHANGED <<appVars, runVars, isSupported, speaking, obsVars, cueCalls,
                        propChanges, staleRun, valVars>>
    ELSE UNCHANGED vars

\* DrillConfiguration.tsx line 14-49 handleSubmit: the form is submitted; a
\* configuration that passes the checks starts the drill, any other only sets the
\* error text shown by the form. Configurations of more than MaxNumCommands commands
\* are left out.
handleSubmit ==
  /\ drillState = "configuring"
  /\ gpc = "idle"
  /\ drillConfig.numCommands <= MaxNumCommands
  /\ LET parsed == parsedValues(drillConfig.clickValues) IN
     IF \/ Len(parsed) = 0
        \/ drillConfig.numCommands < 2
        \/ drillConfig.maxTAndE < 5
        \/ \E k \in 1..Len(parsed) : parsed[k] > drillConfig.maxTAndE
        \/ drillConfig.commandInterval <= 0
       THEN UNCHANGED vars
       ELSE handleStartDrill

\* DrillRunner.tsx line 39 with the ref kept from the run before
mountTAndERefKept(stale) == stale

\* DrillRunner.tsx line 39: useRef({ traverse: 0, elevation: 0 }) at a mount
mountTAndERef(stale) == Origin

\* App.tsx line 54-55 and 72-82: generateDrill has returned; its result becomes the
\* commands, the state becomes running and the render mounts a new DrillRunner
\* (DrillRunner.tsx line 37-41)
StartDrillReturn ==
  /\ drillState = "configuring"
  /\ gpc = "returned"
  /\ commands' = result
  /\ drillState' = "running"
  /\ currentCommandIndex' = 0
  /\ tAndERef' = mountTAndERef(tAndERef)
  /\ displayTAndE' = Origin
  /\ timers' = <<>>
  /\ effectPending' = TRUE
  /\ log' = <<>> /\ finishCalls' = <<>> /\ cancelled' = FALSE /\ cueCalls' = <<>>
  /\ staleRun' = [index |-> currentCommandIndex, traverse |-> tAndERef.traverse,
                  elevation |-> tAndERef.elevation]
  /\ numCommands' = 0 /\ clickValues' = <<>> /\ maxTAndE' = 0
  /\ gpc' = "idle" /\ attempt' = 0
  /\ positiveCommands' = <<>> /\ availableCommands' = <<>> /\ finalDrill' = <<>>
  /\ simTraverse' = 0 /\ simElevation' = 0 /\ result' = <<>>
  /\ draws' = 0 /\ attemptsStarted' = 0
  /\ UNCHANGED <<finalTAndE, drillConfig, speechVars, preloadCalls, propChanges, valVars>>

\* speech.ts line 33-38: the cue in the engine after warmUp()
WarmUpCue == [direction |-> "NONE", value |-> 0, rate |-> 100]
warmUp(current) == IF isSupported /\ current = NoCue THEN WarmUpCue ELSE current

\* App just mounted (App.tsx line 21-38): the default configuration, the player
\* constructed and warmed up, no DrillRunner mounted
AppMounted ==
  /\ drillState = "configuring" /\ commands = <<>> /\ finalTAndE = Origin
  /\ drillConfig = [numCommands |-> 10, clickValues |-> <<"5", " 10">>,
                    commandInterval |-> 100,
                    voiceEnabled |-> TRUE, ttsSpeedMultiplier |-> 200,
                    ttsManualSpeed |-> FALSE, maxTAndE |-> 25]
  /\ currentCommandIndex = 0 /\ tAndERef = Origin /\ displayTAndE = Origin
  /\ timers = <<>> /\ effectPending = FALSE
  /\ isSupported \in BOOLEAN /\ utteranceCache = {} /\ speaking = warmUp(NoCue)
  /\ log = <<>> /\ finishCalls = <<>> /\ cancelled = FALSE
  /\ cueCalls = <<>> /\ preloadCalls = <<>> /\ propChanges = 0 /\ staleRun = NoRun

\* App with its form filled in (App.tsx line 21-42): a configuration of the bounded
\* sets, no DrillRunner mounted yet
AppConfigured ==
  /\ drillState = "configuring" /\ commands = <<>> /\ finalTAndE = Origin
  /\ drillConfig \in [numCommands : 0..MaxNumCommands, clickValues : ReplayTexts,
                      commandInterval : {100}, voiceEnabled : BOOLEAN,
                      ttsSpeedMultiplier : {200}, ttsManualSpeed : {FALSE},
                      maxTAndE : MaxTAndEs]
  /\ currentCommandIndex = 0 /\ tAndERef = Origin /\ displayTAndE = Origin
  /\ timers = <<>> /\ effectPending = FALSE
  /\ isSupported = TRUE /\ utteranceCache = {} /\ speaking = warmUp(NoCue)
  /\ log = <<>> /\ finishCalls = <<>> /\ cancelled = FALSE
  /\ cueCalls = <<>> /\ preloadCalls = <<>> /\ propChanges = 0 /\ staleRun = NoRun

\* DrillResult.tsx: finalTraverse === 0 && finalElevation === 0
isSuccess(finalTraverse, finalElevation) == finalTraverse = 0 /\ finalElevation = 0

\* App and the speech player at rest, no DrillRunner mounted
UiIdle ==
  /\ drillState = "configuring" /\ commands = <<>> /\ finalTAndE = Origin
  /\ drillConfig = [numCommands |-> 10, clickValues |-> <<"5", " 10">>,
                    commandInterval |-> 100,
                    voiceEnabled |-> TRUE, ttsSpeedMultiplier |-> 200,
                    ttsManualSpeed |-> FALSE, maxTAndE |-> 25]
  /\ currentCommandIndex = 0 /\ tAndERef = Origin /\ displayTAndE = Origin
  /\ timers = <<>> /\ effectPending = FALSE
  /\ isSupported = TRUE /\ utteranceCache = {} /\ speaking = NoCue
  /\ log = <<>> /\ finishCalls = <<>> /\ cancelled = FALSE
  /\ cueCalls = <<>> /\ preloadCalls = <<>> /\ propChanges = 0 /\ staleRun = NoRun

\* DrillRunner just mounted by App in the running state with the given commands:
\* useState(0), useRef({0, 0}), no effect has run yet
RunnerMounted ==
  /\ drillState = "running"
  /\ commands \in RunnerCommandLists
  /\ finalTAndE = Origin
  /\ drillConfig \in [numCommands : {Len(commands)}, clickValues : {<<"5">>},
                      commandInterval : Intervals, voiceEnabled : BOOLEAN,
                      ttsSpeedMultiplier : {200}, ttsManualSpeed : {FALSE},
                      maxTAndE : RunnerMaxTAndEs]
  /\ currentCommandIndex = 0 /\ tAndERef = Origin /\ displayTAndE = Origin
  /\ timers = <<>> /\ effectPending = TRUE
  /\ isSupported \in BOOLEAN
  /\ utteranceCache = IF drillConfig.voiceEnabled
                        THEN preload(parsedValues(drillConfig.clickValues), {})
                      ELSE {}
  /\ speaking = NoCue
  /\ log = <<>> /\ finishCalls = <<>> /\ cancelled = FALSE
  /\ cueCalls = <<>> /\ preloadCalls = <<>> /\ propChanges = 0 /\ staleRun = NoRun

----------------------------------------------------------------------------
(* Specifications *)

\* generateDrill called with every argument of the bounded sets
InitGen == GenCall /\ ValidIdle /\ SpeedIdle /\ UiIdle
NextGen == GenEntry \/ GenPositive \/ GenMirror \/ GenDrain \/ GenAttemptEnd
SpecGen == InitGen /\ [][NextGen]_vars
\* generateDrill is synchronous code: while it has not returned it takes its next step
SpecGenFair == SpecGen /\ WF_vars(NextGen)

\* isMoveValid called with every argument of the bounded sets
InitValid == GenIdle /\ ValidCall /\ SpeedIdle /\ UiIdle
NextValid == ValidReturn
SpecValid == InitValid /\ [][NextValid]_vars

\* DrillRunner mounted with every command list of the bounded set
InitRunner == GenIdle /\ ValidIdle /\ SpeedIdle /\ RunnerMounted
NextRunner == RunEffect \/ gridUpdateTimer \/ nextCommandTimer \/ handleStopClick
                \/ ResultReset
SpecRunner == InitRunner /\ [][NextRunner]_vars

\* DrillRunner mounted with a non-empty command list. The browser runs every pending
\* timer callback when it is due and React runs every pending effect; the user need
\* not press any button.
InitProgress == InitRunner /\ commands \in ProgressCommandLists
SpecRunnerFair ==
  /\ InitProgress /\ [][NextRunner]_vars
  /\ WF_vars(RunEffect) /\ WF_vars(gridUpdateTimer) /\ WF_vars(nextCommandTimer)

\* DrillRunner mounted, its parent changing its configuration props during the run
InitProps ==
  /\ GenIdle /\ ValidIdle /\ SpeedIdle
  /\ RunnerMounted
  /\ commands \in PropsCommandLists
NextProps == RunEffect \/ gridUpdateTimer \/ nextCommandTimer \/ handleStopClick
               \/ ResultReset \/ PropsChange
SpecProps == InitProps /\ [][NextProps]_vars

\* the whole application: the form, handleStartDrill with the steps of generateDrill,
\* the run, Stop and the result screen
InitApp == GenIdle /\ ValidIdle /\ SpeedIdle /\ AppMounted
NextApp == handleConfigChange \/ handleSubmit
             \/ GenEntry \/ GenPositive \/ GenMirror \/ GenDrain \/ GenAttemptEnd
             \/ StartDrillReturn
             \/ RunEffect \/ gridUpdateTimer \/ nextCommandTimer \/ handleStopClick
             \/ ResultReset
SpecApp == InitApp /\ [][NextApp]_vars

\* one drill generated from the form and played to its end: Stop is not pressed and
\* the result screen is left open
InitReplay == GenIdle /\ ValidIdle /\ SpeedIdle /\ AppConfigured
NextReplay == handleSubmit
                \/ GenEntry \/ GenPositive \/ GenMirror \/ GenDrain \/ GenAttemptEnd
                \/ StartDrillReturn
                \/ RunEffect \/ gridUpdateTimer \/ nextCommandTimer
SpecReplay == InitReplay /\ [][NextReplay]_vars

\* commandPlayer driven through its public methods, in any order
InitSpeech ==
  /\ GenIdle /\ ValidIdle /\ SpeedIdle
  /\ drillState = "configuring" /\ commands = <<>> /\ finalTAndE = Origin
  /\ drillConfig = [numCommands |-> 10, clickValues |-> <<"5", " 10">>,
                    commandInterval |-> 100,
                    voiceEnabled |-> TRUE, ttsSpeedMultiplier |-> 200,
                    ttsManualSpeed |-> FALSE, maxTAndE |-> 25]
  /\ currentCommandIndex = 0 /\ tAndERef = Origin /\ displayTAndE = Origin
  /\ timers = <<>> /\ effectPending = FALSE
  /\ PlayerConstructed
  /\ log = <<>> /\ finishCalls = <<>> /\ cancelled = FALSE
  /\ cueCalls = <<>> /\ preloadCalls = <<>> /\ propChanges = 0 /\ staleRun = NoRun
NextSpeech == SpeechPreload \/ SpeechPlay \/ SpeechStop \/ UtteranceEnd
SpecSpeech == InitSpeech /\ [][NextSpeech]_vars

\* calculateAutoSpeed called with every interval of the bounded set
InitSpeed == GenIdle /\ ValidIdle /\ SpeedCall /\ UiIdle
NextSpeed == SpeedReturn
SpecSpeed == InitSpeed /\ [][NextSpeed]_vars

----------------------------------------------------------------------------
(* Properties of generateDrill, under SpecGen *)

\* the signed sum of the values of seq: +value for direction plus, -value for minus
RECURSIVE signedSum(_, _, _)
signedSum(seq, plus, minus) ==
  IF seq = <<>> THEN 0
  ELSE (IF Head(seq).direction = plus THEN Head(seq).value
        ELSE IF Head(seq).direction = minus THEN -Head(seq).value
        ELSE 0) + signedSum(Tail(seq), plus, minus)

netElevation(seq) == signedSum(seq, "UP", "DOWN")
netTraverse(seq) == signedSum(seq, "RIGHT", "LEFT")

\* every prefix of seq, applied from (0,0), stays within [-bound, bound] on both axes
prefixesWithin(seq, bound) ==
  \A k \in 0..Len(seq) :
     /\ -bound <= netTraverse(SubSeq(seq, 1, k)) /\ netTraverse(SubSeq(seq, 1, k)) <= bound
     /\ -bound <= netElevation(SubSeq(seq, 1, k)) /\ netElevation(SubSeq(seq, 1, k)) <= bound

Returned == gpc = "returned"

\* C1: every non-empty sequence generateDrill returns has signed Up/Down sum 0 and
\* signed Right/Left sum 0
C1_ZeroSum ==
  (Returned /\ Len(result) > 0) => (netElevation(result) = 0 /\ netTraverse(result) = 0)

\* a returned drill of four commands that moves on both axes
C1_Witness ==
  /\ Returned /\ Len(result) = 4
  /\ \E i, j \in 1..4 : result[i].direction = "UP" /\ result[j].direction = "RIGHT"

\* C2: every prefix of a returned sequence keeps traverse and elevation within
\* [-maxTAndE, maxTAndE]
C2_PrefixBound == Returned => prefixesWithin(result, maxTAndE)

\* a returned drill that reaches the bound and had to turn back there
C2_Witness ==
  /\ Returned /\ Len(result) = 4 /\ maxTAndE = 10
  /\ result[1] = DrillCommand("UP", 10) /\ result[2] = DrillCommand("DOWN", 10)
  /\ result[3] = DrillCommand("UP", 10)

\* C3: when an attempt drained its whole pool, the returned sequence has length
\* numCommands rounded up to the nearest even integer
C3_Length ==
  (Returned /\ attemptsStarted > 0 /\ availableCommands = <<>>)
     => Len(result) = numCommands + (numCommands % 2)

\* an odd numCommands returned as the next even number of commands
C3_Witness == Returned /\ numCommands = 3 /\ Len(result) = 4 /\ availableCommands = <<>>

\* C4: with clickValues empty or holding a value above maxTAndE, generateDrill
\* returns the empty sequence with no attempt started, no random draw and no pool
\* built, whatever numCommands is
C4_Infeasible ==
  (Len(clickValues) = 0 \/ \E k \in 1..Len(clickValues) : clickValues[k] > maxTAndE)
     => /\ gpc \in {"entry", "returned"}
        /\ attemptsStarted = 0 /\ draws = 0
        /\ positiveCommands = <<>> /\ availableCommands = <<>> /\ finalDrill = <<>>
        /\ (Returned => result = <<>>)

\* a call with a value above the bound beside a feasible one has returned
C4_Witness ==
  Returned /\ clickValues = <<5, 30>> /\ maxTAndE = 25 /\ numCommands = 4 /\ result = <<>>

\* the number of entries of seq equal to command
count(seq, command) == Cardinality({ k \in 1..Len(seq) : seq[k] = command })

\* the mirrored multiset of an attempt: its positive commands and their opposites
mirrored(positive) ==
  positive \o [ k \in 1..Len(positive) |->
                  DrillCommand(IF positive[k].direction = "RIGHT" THEN "LEFT" ELSE "DOWN",
                               positive[k].value) ]

\* C21: while an attempt drains its pool, the output so far and the pool together
\* hold exactly the commands of the mirrored multiset, each as often as there (a step
\* moves one command from the pool to the output; none is dropped, duplicated or
\* altered); so a returned sequence is a permutation of the mirrored multiset, with
\* as many (Up, m) as (Down, m) and as many (Right, m) as (Left, m) for each value m
C21_MirroredPermutation ==
  LET values == { clickValues[k] : k \in 1..Len(clickValues) }
      commandsOf == { DrillCommand(d, v) : d \in Direction, v \in values }
  IN  /\ gpc \in {"drain", "check"} \/ (Returned /\ attemptsStarted > 0)
          => /\ \A c \in commandsOf :
                   count(finalDrill, c) + count(availableCommands, c)
                      = count(mirrored(positiveCommands), c)
             /\ \A k \in 1..Len(finalDrill) : finalDrill[k] \in commandsOf
             /\ \A k \in 1..Len(availableCommands) : availableCommands[k] \in commandsOf
      /\ (Returned /\ Len(result) > 0)
          => /\ Len(result) = 2 * Len(positiveCommands)
             /\ \A c \in commandsOf : count(result, c) = count(mirrored(positiveCommands), c)
             /\ \A k \in 1..Len(result) : result[k] \in commandsOf
             /\ \A v \in values :
                   /\ count(result, DrillCommand("UP", v)) = count(result, DrillCommand("DOWN", v))
                   /\ count(result, DrillCommand("RIGHT", v))
                         = count(result, DrillCommand("LEFT", v))

\* a returned drill that is the pool Up 5, Right 10, Down 5, Left 10 in another order
C21_Witness ==
  /\ Returned /\ positiveCommands = <<DrillCommand("UP", 5), DrillCommand("RIGHT", 10)>>
  /\ result = <<DrillCommand("RIGHT", 10), DrillCommand("UP", 5),
                DrillCommand("LEFT", 10), DrillCommand("DOWN", 5)>>

\* the position reached by seq from (0,0) followed by command is within the bound
staysWithin(seq, command, bound) ==
  LET after == Append(seq, command) IN
  /\ -bound <= netTraverse(after) /\ netTraverse(after) <= bound
  /\ -bound <= netElevation(after) /\ netElevation(after) <= bound

\* C23: for clickValues non-empty with every value a positive integer <= maxTAndE,
\* in every state of an attempt with a non-empty pool some pool entry is a valid
\* move; the draining loop never breaks as stuck, no second attempt is started, and
\* generateDrill returns a non-empty sequence whenever numCommands >= 1
C23_NeverStuck ==
  ( /\ Len(clickValues) > 0
    /\ \A k \in 1..Len(clickValues) : clickValues[k] > 0 /\ clickValues[k] <= maxTAndE )
     => /\ (gpc = "drain" /\ Len(availableCommands) > 0)
             => \E k \in 1..Len(availableCommands) :
                   staysWithin(finalDrill, availableCommands[k], maxTAndE)
        /\ gpc # "check"
        /\ attempt = 0 /\ attemptsStarted <= 1
        /\ Returned => /\ availableCommands = <<>>
                       /\ Len(result) = Len(finalDrill)
                       /\ numCommands >= 1 => Len(result) > 0

\* an attempt at the bound: Up 10 left in the pool is no valid move from elevation
\* 10 with bound 10, Down 10 beside it is
C23_Witness ==
  /\ gpc = "drain" /\ maxTAndE = 10 /\ simElevation = 10 /\ attemptsStarted = 1
  /\ \E i, j \in 1..Len(availableCommands) :
        /\ availableCommands[i] = DrillCommand("UP", 10)
        /\ availableCommands[j] = DrillCommand("DOWN", 10)

\* C6: generateDrill(4, [5], 25) always returns exactly 4 commands of value 5 with net
\* displacement (0,0) and every prefix within 25; never the empty sequence
C6_Scenario ==
  (Returned /\ numCommands = 4 /\ clickValues = <<5>> /\ maxTAndE = 25)
     => /\ Len(result) = 4
        /\ \A k \in 1..Len(result) : result[k].value = 5
        /\ netTraverse(result) = 0 /\ netElevation(result) = 0
        /\ prefixesWithin(result, 25)

\* the scenario's call has returned a drill
C6_Witness ==
  /\ Returned /\ numCommands = 4 /\ clickValues = <<5>> /\ maxTAndE = 25
  /\ result = <<DrillCommand("RIGHT", 5), DrillCommand("UP", 5),
                DrillCommand("DOWN", 5), DrillCommand("LEFT", 5)>>

----------------------------------------------------------------------------
(* Properties of isMoveValid, under SpecValid *)

\* the rule of the validator, on the arguments of the call
validRule ==
  LET d == validArgs.command.direction
      v == validArgs.command.value
      M == validArgs.maxTAndE
  IN  \/ d = "UP" /\ validArgs.elevation + v <= M
      \/ d = "DOWN" /\ validArgs.elevation - v >= -M
      \/ d = "LEFT" /\ validArgs.traverse - v >= -M
      \/ d = "RIGHT" /\ validArgs.traverse + v <= M

RightFrom20(v) ==
  [command |-> DrillCommand("RIGHT", v), traverse |-> 20, elevation |-> 0,
   maxTAndE |-> 25, called |-> TRUE]

\* C5: isMoveValid returns a boolean for every input, equal to the rule (Up iff
\* elevation + value <= max, Down iff elevation - value >= -max, Left iff
\* traverse - value >= -max, Right iff traverse + value <= max); from (20, 0) with
\* bound 25, Right 10 is invalid and Right 5 is valid
C5_Validator ==
  validArgs.called =>
     /\ validResult \in BOOLEAN
     /\ validResult = validRule
     /\ (validArgs = RightFrom20(10) => validResult = FALSE)
     /\ (validArgs = RightFrom20(5) => validResult = TRUE)

\* Right 5 from (20, 0) with bound 25 was found valid
C5_Witness == validArgs = RightFrom20(5) /\ validResult = TRUE

----------------------------------------------------------------------------
(* Properties of DrillRunner, under SpecRunner *)

\* the events of an uncancelled run over n commands, of which the first k commands
\* are complete: midpoint(0), advance(0), ..., midpoint(n-1), end(n-1)
expectedLog(n) ==
  [ e \in 1..(2 * n) |->
      IF e % 2 = 1 THEN <<"midpoint", (e - 1) \div 2>>
      ELSE IF e = 2 * n THEN <<"end", n - 1>>
      ELSE <<"advance", (e - 2) \div 2>> ]

isPrefix(a, b) == Len(a) <= Len(b) /\ a = SubSeq(b, 1, Len(a))

\* the position after the midpoints of the first k commands: each delta applied
\* once, in order, and clamped
RECURSIVE positionAfter(_, _, _)
positionAfter(cmds, k, bound) ==
  IF k = 0 THEN Origin
  ELSE LET before == positionAfter(cmds, k - 1, bound)
       IN  [traverse |-> clamp(simTraverseAfter(cmds[k], before.traverse), bound),
            elevation |-> clamp(simElevationAfter(cmds[k], before.elevation), bound)]

\* C7: in an uncancelled run over n >= 1 commands the timer callbacks run in the order
\* midpoint(0), advance(0), ..., midpoint(n-1), end(n-1); each command's delta is
\* applied exactly once, and the final position is reported after all of them
C7_EventOrder ==
  (drillState \in {"running", "finished"} /\ Len(commands) >= 1)
     => /\ isPrefix(log, expectedLog(Len(commands)))
        /\ tAndERef = positionAfter(commands, (Len(log) + 1) \div 2, drillConfig.maxTAndE)
        /\ (finishCalls # <<>> \/ drillState = "finished")
              => /\ log = expectedLog(Len(commands))
                 /\ Len(finishCalls) = 1
                 /\ finalTAndE = positionAfter(commands, Len(commands), drillConfig.maxTAndE)

\* a run over three commands has finished after its three midpoints and three ends
C7_Witness ==
  /\ drillState = "finished" /\ Len(commands) = 3 /\ Len(log) = 6
  /\ drillConfig.commandInterval = 100

\* C8: once a run is stopped no timer of it is pending, and no later step changes
\* the simulated position, the displayed position or the record of callbacks run
C8_StopCancels ==
  [][ /\ cancelled' => timers' = <<>>
      /\ cancelled => /\ tAndERef' = tAndERef
                      /\ displayTAndE' = displayTAndE
                      /\ log' = log
                      /\ finishCalls' = finishCalls ]_vars

\* a run stopped after the midpoint of its second command, both timers gone
C8_Witness ==
  /\ cancelled /\ timers = <<>>
  /\ log = <<<<"midpoint", 0>>, <<"advance", 0>>, <<"midpoint", 1>>>>

\* C9: onFinish is invoked at most once in a run, only by the end-of-interval callback
\* of the last command, while the last command is current
C9_FinishOnce ==
  /\ Len(finishCalls) <= 1
  /\ \A c \in 1..Len(finishCalls) :
        /\ finishCalls[c].by = "nextCommandTimer"
        /\ finishCalls[c].length >= 1
        /\ finishCalls[c].index = finishCalls[c].length - 1
        /\ finishCalls[c].current = finishCalls[c].length - 1

\* onFinish was invoked at the end of the third command of a three-command run
C9_Witness ==
  /\ Len(finishCalls) = 1 /\ finishCalls[1].index = 2 /\ finishCalls[1].length = 3
  /\ drillState = "finished"

\* C10: a DrillRunner whose command sequence is empty finishes at once: after its
\* effect has run, onFinish was invoked with the last simulated position and the run
\* state is Finished
C10_EmptyFinishes ==
  (Len(commands) = 0 /\ drillState # "configuring" /\ ~effectPending)
     => /\ drillState = "finished"
        /\ Len(finishCalls) = 1
        /\ finalTAndE = tAndERef

\* C13: for any command sequence given to DrillRunner and any maxTAndE >= 0, the
\* simulated position (and the displayed one) has both axes within
\* [-maxTAndE, maxTAndE] in every state of the run
C13_PositionClamped ==
  LET M == drillConfig.maxTAndE
      within(p) == /\ -M <= p.traverse /\ p.traverse <= M
                   /\ -M <= p.elevation /\ p.elevation <= M
  IN  within(tAndERef) /\ within(displayTAndE) /\ within(finalTAndE)

\* the second midpoint of Right 10, Right 5 with bound 10 was held at the bound
C13_Witness ==
  /\ Len(commands) >= 2
  /\ commands[1] = DrillCommand("RIGHT", 10) /\ commands[2] = DrillCommand("RIGHT", 5)
  /\ drillConfig.maxTAndE = 10
  /\ Len(log) = 3 /\ tAndERef.traverse = 10

\* C14: on entering each command the effect calls commandPlayer.play exactly when
\* voiceEnabled is true and commandInterval >= 0.1 s, once per command entered, and
\* makes no play call otherwise
C14_CueDispatch ==
  LET wanted == drillConfig.voiceEnabled /\ drillConfig.commandInterval >= 10 IN
  /\ \A k \in 1..Len(cueCalls) :
        /\ cueCalls[k].index = k - 1
        /\ (cueCalls[k].op = "play") <=> wanted
  /\ (drillState \in {"running", "finished"} /\ Len(commands) >= 1)
        => Len(cueCalls) = IF effectPending THEN currentCommandIndex
                           ELSE currentCommandIndex + 1

\* the second command of a run with voice at a one-second interval was played
C14_Witness ==
  /\ drillConfig.voiceEnabled /\ drillConfig.commandInterval = 100
  /\ Len(cueCalls) = 2 /\ cueCalls[2].op = "play"

\* the timers pending after e callbacks of a run over cmds: none while the effect of
\* the command entered has not run or after the run's end, else the timers of command
\* e \div 2 that have not run; computed from the commands, the interval and the bound
pendingAfter(cmds, interval, bound, e, entered) ==
  IF ~entered \/ e >= 2 * Len(cmds) THEN <<>>
  ELSE LET closure == [command |-> cmds[(e \div 2) + 1], index |-> e \div 2,
                       length |-> Len(cmds), maxTAndE |-> bound]
           midpoint == [kind |-> "gridUpdateTimer", delay |-> (interval * 10) \div 2]
                          @@ closure
           end == [kind |-> "nextCommandTimer", delay |-> interval * 10] @@ closure
       IN  IF e % 2 = 0 THEN <<midpoint, end>> ELSE <<end>>

\* C17: the scheduler's state after any number of callbacks of an uncancelled run (the
\* callbacks run so far, the position after each, the current index, the timers
\* pending, the reported position) is one function of the command sequence, the
\* interval, the bound and the number of callbacks, the same whether speech is
\* supported or not, the cue cached or missing, voice enabled or disabled; so two
\* runs that differ only in the speech service agree on every event and position
C17_SpeechIndependent ==
  (drillState \in {"running", "finished"} /\ Len(commands) >= 1)
     => LET e == Len(log)
            n == Len(commands)
            M == drillConfig.maxTAndE
        IN  /\ e <= 2 * n
            /\ log = SubSeq(expectedLog(n), 1, e)
            /\ currentCommandIndex = Min(e \div 2, n - 1)
            /\ tAndERef = positionAfter(commands, (e + 1) \div 2, M)
            /\ displayTAndE = tAndERef
            /\ timers = pendingAfter(commands, drillConfig.commandInterval, M, e,
                                     ~effectPending)
            /\ effectPending => (e % 2 = 0 /\ e < 2 * n)
            /\ (drillState = "finished") <=> (e = 2 * n)
            /\ drillState = "finished"
                  => (finalTAndE = positionAfter(commands, n, M) /\ Len(finishCalls) = 1)

\* a run with voice enabled on a platform without speech synthesis, whose second
\* command had no cached cue either, finished with every callback run
C17_Witness ==
  /\ drillState = "finished" /\ Len(commands) = 2 /\ Len(log) = 4
  /\ drillConfig.voiceEnabled /\ ~isSupported
  /\ Len(cueCalls) = 2 /\ cueCalls[2].op = "play" /\ ~cueCalls[2].cached
  /\ finalTAndE = positionAfter(commands, 2, drillConfig.maxTAndE)
  /\ finalTAndE # Origin

\* C18: a change of commandInterval, voiceEnabled, ttsManualSpeed or
\* ttsSpeedMultiplier while a command is in flight does not reschedule its timers: the
\* effect body runs once per command, no command's midpoint runs twice, and the
\* position is that of each delta applied once
C18_ScheduledOnce ==
  /\ \A i, j \in 1..Len(cueCalls) : cueCalls[i].index = cueCalls[j].index => i = j
  /\ \A i, j \in 1..Len(log) : log[i] = log[j] => i = j
  /\ (drillState \in {"running", "finished"} /\ Len(commands) >= 1)
        => tAndERef = positionAfter(commands,
                         Cardinality({ log[i][2] : i \in { k \in 1..Len(log) :
                                                            log[k][1] = "midpoint" } }),
                         drillConfig.maxTAndE)

----------------------------------------------------------------------------
(* Properties of calculateAutoSpeed, under SpecSpeed *)

\* C15 as stated: calculateAutoSpeed(interval) is 2.0 for interval >= 1.0 s and
\* otherwise 2.0 + 0.3 * floor((1.0 - interval) / 0.1), for every interval in
\* hundredths of a second
C15_FloorSteps ==
  speedArgs.called =>
     speedResult = IF speedArgs.interval >= 100 THEN 200
                   ELSE 200 + 30 * ((100 - speedArgs.interval) \div 10)

\* C15 amended: calculateAutoSpeed(interval) is 2.0 for interval >= 1.0 s and
\* otherwise 2.0 + 0.3 * k, k the number of 0.1 s steps by which interval falls below
\* 1.0 s rounded to the nearest integer, halves up; for an interval that is a multiple
\* of 0.1 s this is the number of full steps (1.0 -> 2.0, 0.7 -> 2.9, 1.5 -> 2.0)
C15_RoundedSteps ==
  speedArgs.called =>
     LET c == speedArgs.interval IN
     /\ c >= 100 => speedResult = 200
     /\ c < 100 => \E k \in 0..10 :
                      /\ 10 * k - 5 <= 100 - c /\ 100 - c < 10 * k + 5
                      /\ speedResult = 200 + 30 * k
     /\ c % 10 = 0 => speedResult = 200 + 30 * (IF c >= 100 THEN 0 ELSE (100 - c) \div 10)
     /\ c = 70 => speedResult = 290

\* 0.75 s, two and a half steps below 1.0 s, gave rate 2.9
C15_Witness == speedArgs.called /\ speedArgs.interval = 75 /\ speedResult = 290

----------------------------------------------------------------------------
(* Properties of commandPlayer, under SpecSpeech *)

\* C16: every play call cancels the cue in flight: after a play call the engine is
\* speaking nothing or the cue of the command just requested, never the cue of an
\* earlier play call, also when the requested command was not preloaded
C16_PlayCancels ==
  (cueCalls # <<>> /\ cueCalls[1].op = "play")
     => \/ speaking = NoCue
        \/ /\ speaking.direction = cueCalls[1].command.direction
           /\ speaking.value = cueCalls[1].command.value

----------------------------------------------------------------------------
(* Termination of generateDrill, under SpecGenFair *)

\* C19: generateDrill returns; it starts at most 10 attempts; every step of the
\* draining loop that stays in the loop takes exactly one command out of the pool;
\* and for a feasible configuration with numCommands >= 1 the empty sequence is
\* returned only after 10 attempts that each ended with commands left in the pool
C19_Terminates ==
  /\ <>Returned
  /\ [](attemptsStarted <= 10)
  /\ [][ (gpc = "drain" /\ gpc' = "drain" /\ availableCommands' # availableCommands)
            => /\ Len(availableCommands') = Len(availableCommands) - 1
               /\ Len(finalDrill') = Len(finalDrill) + 1 ]_vars
  /\ [][ (gpc = "drain" /\ Len(availableCommands) > 0)
            => (availableCommands' # availableCommands \/ gpc' = "check") ]_vars
  /\ []( ( /\ Returned /\ result = <<>> /\ numCommands >= 1
           /\ Len(clickValues) > 0
           /\ \A k \in 1..Len(clickValues) : clickValues[k] <= maxTAndE )
         => (attemptsStarted = 10 /\ availableCommands # <<>>) )

\* a feasible call has returned a drill of four commands from its first attempt
C19_Witness ==
  /\ Returned /\ numCommands = 4 /\ clickValues = <<5, 10>> /\ maxTAndE = 10
  /\ attemptsStarted = 1 /\ Len(result) = 4 /\ draws = 8

----------------------------------------------------------------------------
(* Properties of the application, under SpecApp *)

\* C11 as stated: drillState changes only along Configuring -> Running,
\* Running -> Finished and Finished -> Configuring
C11_Linear ==
  [][ drillState' # drillState
        => <<drillState, drillState'>> \in { <<"configuring", "running">>,
                                             <<"running", "finished">>,
                                             <<"finished", "configuring">> } ]_vars

\* C11 amended: drillState changes only along Configuring -> Running (handleStartDrill
\* after generateDrill returned), Running -> Finished (onFinish), Finished ->
\* Configuring (reset) and Running -> Configuring (Stop Drill); in particular never
\* Configuring -> Finished, Finished -> Running or Running -> Configuring without Stop
C11_Transitions ==
  [][ drillState' # drillState
        => \/ /\ drillState = "configuring" /\ drillState' = "running"
              /\ gpc = "returned"
           \/ /\ drillState = "running" /\ drillState' = "finished"
              /\ Len(finishCalls') = Len(finishCalls) + 1
              /\ ~cancelled'
           \/ /\ drillState = "finished" /\ drillState' = "configuring"
              /\ cancelled' = cancelled
           \/ /\ drillState = "running" /\ drillState' = "configuring"
              /\ ~cancelled /\ cancelled' ]_vars

\* Stop Drill, pressed after the first midpoint of a run, brought the application
\* from Running back to Configuring
C11_Witness ==
  /\ drillState = "configuring" /\ cancelled /\ finishCalls = <<>>
  /\ log = <<<<"midpoint", 0>>>>

\* C12: when a run starts (DrillRunner mounted, its effect not yet run) the simulated
\* position and the displayed position are (0,0) and the current command index is 0,
\* whatever index and position the run before it was left at
C12_RunStartsAtOrigin ==
  (drillState = "running" /\ log = <<>> /\ cueCalls = <<>>)
     => /\ tAndERef = Origin
        /\ displayTAndE = Origin
        /\ currentCommandIndex = 0
        /\ timers = <<>>

\* a run has started after a run that was stopped at index 1 away from (0,0)
C12_Witness ==
  /\ drillState = "running" /\ log = <<>> /\ cueCalls = <<>> /\ effectPending
  /\ staleRun.index = 1
  /\ (staleRun.traverse # 0 \/ staleRun.elevation # 0)
  /\ tAndERef = Origin /\ currentCommandIndex = 0

\* C20 as stated: in every run with voice enabled the cache holds, at every play call
\* of the run, a cue for the command being played
C20_CachedAtPlay ==
  (drillState \in {"running", "finished"} /\ drillConfig.voiceEnabled)
     => \A k \in 1..Len(cueCalls) : cueCalls[k].op = "play" => cueCalls[k].cached

\* C20 amended: in every run with voice enabled preload was called once, before the
\* state became Running, with the run's parsed click values, and every command of
\* the sequence has its value among them and its direction in Direction; where
\* speech synthesis is supported the cache so holds a cue for every command of the
\* sequence, at every play call of the run (where it is not, preload caches nothing)
C20_Preloaded ==
  (drillState = "running" /\ drillConfig.voiceEnabled)
     => /\ Len(preloadCalls) = 1
        /\ preloadCalls[1] = parsedValues(drillConfig.clickValues)
        /\ \A k \in 1..Len(commands) :
              /\ commands[k].direction \in Direction
              /\ \E j \in 1..Len(preloadCalls[1]) : commands[k].value = preloadCalls[1][j]
        /\ isSupported
             => /\ \A k \in 1..Len(commands) : commandToKey(commands[k]) \in utteranceCache
                /\ \A k \in 1..Len(cueCalls) :
                      cueCalls[k].op = "play" => cueCalls[k].cached

\* the second command of a run with voice, of value 10, was played from the cache
C20_Witness ==
  /\ drillState = "running" /\ drillConfig.voiceEnabled /\ isSupported
  /\ Len(preloadCalls) = 1 /\ preloadCalls[1] = <<5, 10>>
  /\ Len(cueCalls) = 2 /\ cueCalls[2].op = "play" /\ cueCalls[2].cached
  /\ commands[2].value = 10

\* C22: in every state at most one midpoint timer and at most one end-of-interval
\* timer are pending; a pending timer was set for the current command of the mounted
\* DrillRunner; none is pending in the configuring or the finished state; and none of
\* the command just left is pending when the effect is about to set the next pair
C22_TimerPair ==
  LET pending(kind) == { k \in 1..Len(timers) : timers[k].kind = kind } IN
  /\ Cardinality(pending("gridUpdateTimer")) <= 1
  /\ Cardinality(pending("nextCommandTimer")) <= 1
  /\ Len(timers) = Cardinality(pending("gridUpdateTimer"))
                     + Cardinality(pending("nextCommandTimer"))
  /\ \A k \in 1..Len(timers) :
        /\ drillState = "running"
        /\ HasCurrentCommand
        /\ timers[k].index = currentCommandIndex
        /\ timers[k].command = currentCommand
        /\ timers[k].length = Len(commands)
  /\ drillState \in {"configuring", "finished"} => timers = <<>>
  /\ effectPending => timers = <<>>

\* the pair of the second command of a run is pending, the first command's pair gone
C22_Witness ==
  /\ drillState = "running" /\ currentCommandIndex = 1
  /\ log = <<<<"midpoint", 0>>, <<"advance", 0>>>>
  /\ Len(timers) = 2
  /\ timers[1].kind = "gridUpdateTimer" /\ timers[1].index = 1
  /\ timers[2].kind = "nextCommandTimer" /\ timers[2].index = 1

\* C25: a run stopped by Stop Drill reports nothing: the stop leaves Running for
\* Configuring with an empty command list, invokes no onFinish and leaves finalTAndE
\* as it was; from then until the next run is mounted the state stays Configuring,
\* no onFinish of the stopped run is invoked and finalTAndE does not change
C25_StopReportsNothing ==
  /\ [](cancelled => /\ drillState = "configuring"
                     /\ commands = <<>>
                     /\ finishCalls = <<>>
                     /\ timers = <<>>)
  /\ [][ (drillState = "running" /\ drillState' = "configuring")
            => /\ cancelled'
               /\ commands' = <<>>
               /\ finalTAndE' = finalTAndE
               /\ finishCalls' = finishCalls ]_vars
  /\ [][ (cancelled /\ cancelled')
            => /\ finalTAndE' = finalTAndE
               /\ finishCalls' = finishCalls
               /\ log' = log ]_vars
  /\ [][ drillState' = "finished" /\ drillState # "finished"
            => /\ ~cancelled /\ ~cancelled'
               /\ Len(finishCalls') = 1
               /\ log' = expectedLog(Len(commands)) ]_vars

\* a run was stopped after its first command, away from (0,0); nothing was reported
\* and the application is configuring again
C25_Witness ==
  /\ cancelled /\ drillState = "configuring" /\ commands = <<>>
  /\ tAndERef # Origin /\ finalTAndE = Origin /\ finishCalls = <<>>
  /\ log = <<<<"midpoint", 0>>, <<"advance", 0>>>>

----------------------------------------------------------------------------
(* Progress of DrillRunner, under SpecRunnerFair *)

\* C26: a run over a non-empty sequence with a positive interval that is not stopped
\* reaches the finished state; the current command index is 0 when the run starts,
\* changes only by +1 and only in an end-of-interval callback that advances, and
\* never exceeds commands.length - 1
C26_RunFinishes ==
  /\ (drillState = "running" /\ Len(commands) >= 1 /\ drillConfig.commandInterval > 0)
        ~> (drillState = "finished" \/ cancelled)
  /\ []( (drillState = "running" /\ Len(commands) >= 1)
            => /\ 0 <= currentCommandIndex
               /\ currentCommandIndex <= Len(commands) - 1
               /\ log = <<>> => currentCommandIndex = 0 )
  /\ [][ currentCommandIndex' # currentCommandIndex
            => /\ currentCommandIndex' = currentCommandIndex + 1
               /\ log' = Append(log, <<"advance", currentCommandIndex>>) ]_vars
  /\ [][ (Len(log') > Len(log) /\ log'[Len(log')][1] = "advance")
            => currentCommandIndex' = currentCommandIndex + 1 ]_vars

\* a run over three commands at a 0.05 s interval, not stopped, has finished with
\* its last command current
C26_Witness ==
  /\ drillState = "finished" /\ ~cancelled /\ Len(commands) = 3
  /\ drillConfig.commandInterval = 5
  /\ currentCommandIndex = 2 /\ Len(finishCalls) = 1

----------------------------------------------------------------------------
(* A generated drill played to its end, under SpecReplay *)

\* C24: while DrillRunner plays the sequence generateDrill returned for the same
\* maxTAndE, the position after each midpoint is the unclamped sum of the commands so
\* far (the clamp changes nothing); the position onFinish reports is (0,0), and the
\* result screen evaluates to success
C24_ReplaySucceeds ==
  (drillState \in {"running", "finished"} /\ Len(commands) >= 1)
     => LET done == SubSeq(commands, 1, (Len(log) + 1) \div 2) IN
        /\ tAndERef = [traverse |-> netTraverse(done), elevation |-> netElevation(done)]
        /\ \A c \in 1..Len(finishCalls) :
              finishCalls[c].traverse = 0 /\ finishCalls[c].elevation = 0
        /\ drillState = "finished"
              => /\ Len(finishCalls) = 1
                 /\ finalTAndE = Origin
                 /\ isSuccess(finalTAndE.traverse, finalTAndE.elevation)

\* a drill that goes to the bound 10 twice was played to its end and reported (0,0)
C24_Witness ==
  /\ drillState = "finished" /\ drillConfig.maxTAndE = 10
  /\ commands = <<DrillCommand("UP", 10), DrillCommand("DOWN", 10),
                  DrillCommand("RIGHT", 10), DrillCommand("LEFT", 10)>>
  /\ Len(log) = 8 /\ finalTAndE = Origin

====
